---- MODULE Spec2Model ----
(***************************************************************************)
(* llm_models.py: a command-line script that lists the models of one LLM   *)
(* provider.  One run of the script is one behaviour: the parsed arguments,*)
(* the environment, the provider's catalog and the replies of the probe    *)
(* endpoint are fixed in the initial state; the script then validates the  *)
(* region, dispatches to one adapter and exits.                            *)
(*                                                                         *)
(* Text is modelled as sequences of one-character strings, so that the     *)
(* regular expression, startswith, lower, slicing and string ordering of   *)
(* the script are computed and not assumed.                                *)
(***************************************************************************)
EXTENDS Integers, Sequences, FiniteSets

VARIABLES
    provider,    \* args.provider
    region,      \* args.region: Absent (None) or Some(text)
    env,         \* os.environ restricted to the five credential variables
    catalog,     \* what the provider's listing endpoint returns when it answers
    probeReply,  \* what generate_content answers for each candidate of the fallback
    fn,          \* the function being executed ("module" is the top level)
    pc,          \* position inside fn
    i,           \* loop index of _try_known_gemini_models
    stdout,      \* lines printed so far
    stderr,      \* lines written to standard error so far
    client,      \* the SDK client constructed, or "none"
    calls,       \* network calls issued so far, in order
    exitCode     \* -1 while running, else the process exit status

inputs == <<provider, region, env, catalog, probeReply>>
vars == <<provider, region, env, catalog, probeReply, fn, pc, i, stdout, stderr,
          client, calls, exitCode>>

(***************************************************************************)
(* Bounds of the model.                                                    *)
(***************************************************************************)
MaxRegionLen == 5
MaxModels == 3

(***************************************************************************)
(* Optional values (None / a string) and text helpers.                     *)
(***************************************************************************)
Absent == [some |-> FALSE, str |-> <<>>]
Some(s) == [some |-> TRUE, str |-> s]

\* Python truthiness of an optional string: None and "" are falsy.
Truthy(v) == v.some /\ Len(v.str) > 0

BoundedSeq(S, n) == UNION {[1..k -> S] : k \in 0..n}

Min(a, b) == IF a < b THEN a ELSE b

\* The characters of the model. Digits, upper-case and lower-case letters are
\* listed in code-point order; Punct pairs each other character with its code point.
Digits == << "0", "1", "2", "3", "4", "5", "6", "7", "8", "9" >>
Uppers == << "A", "B", "C", "D", "E", "F", "G", "H", "I", "J", "K", "L", "M",
             "N", "O", "P", "Q", "R", "S", "T", "U", "V", "W", "X", "Y", "Z" >>
Lowers == << "a", "b", "c", "d", "e", "f", "g", "h", "i", "j", "k", "l", "m",
             "n", "o", "p", "q", "r", "s", "t", "u", "v", "w", "x", "y", "z" >>
Punct == << <<"\n", 10>>, <<" ", 32>>, <<"-", 45>>, <<".", 46>>, <<":", 58>> >>

Range(f) == {f[k] : k \in DOMAIN f}

Chars == Range(Digits) \cup Range(Uppers) \cup Range(Lowers) \cup {p[1] : p \in Range(Punct)}

\* ord(c)
Ord == [c \in Chars |->
          IF c \in Range(Digits) THEN 47 + (CHOOSE k \in DOMAIN Digits : Digits[k] = c)
          ELSE IF c \in Range(Uppers) THEN 64 + (CHOOSE k \in DOMAIN Uppers : Uppers[k] = c)
          ELSE IF c \in Range(Lowers) THEN 96 + (CHOOSE k \in DOMAIN Lowers : Lowers[k] = c)
          ELSE (CHOOSE p \in Range(Punct) : p[1] = c)[2]]

IsLower(c) == Ord[c] >= 97 /\ Ord[c] <= 122
IsUpper(c) == Ord[c] >= 65 /\ Ord[c] <= 90
IsDigit(c) == Ord[c] >= 48 /\ Ord[c] <= 57

\* str.lower() on ASCII text
LowerChar(c) == IF IsUpper(c) THEN Lowers[Ord[c] - 64] ELSE c
Lower(s) == [k \in 1..Len(s) |-> LowerChar(s[k])]

\* sub in s
Contains(s, sub) ==
    \E k \in 0..(Len(s) - Len(sub)) : SubSeq(s, k + 1, k + Len(sub)) = sub

\* s.startswith(prefix)
StartsWith(s, prefix) ==
    Len(s) >= Len(prefix) /\ SubSeq(s, 1, Len(prefix)) = prefix

\* s[:n]
Slice(s, n) == SubSeq(s, 1, Min(n, Len(s)))

\* s < t for Python strings: lexicographic on code points, a proper prefix first.
RECURSIVE StrLessFrom(_, _, _)
StrLessFrom(s, t, k) ==
    IF k > Len(t) THEN FALSE
    ELSE IF k > Len(s) THEN TRUE
    ELSE IF Ord[s[k]] < Ord[t[k]] THEN TRUE
    ELSE IF Ord[s[k]] > Ord[t[k]] THEN FALSE
    ELSE StrLessFrom(s, t, k + 1)

StrLess(s, t) == StrLessFrom(s, t, 1)

(***************************************************************************)
(* re.match of the pattern ^[a-z]+-[a-z]+\d+$ as the automaton it denotes. *)
(* Without re.MULTILINE, $ matches at the end of the string and also just  *)
(* before a newline that is the last character of the string.              *)
(***************************************************************************)
ReDelta(q, c, last) ==
    CASE q = "start"    -> IF IsLower(c) THEN "letters1" ELSE "dead"
      [] q = "letters1" -> IF IsLower(c) THEN "letters1"
                           ELSE IF c = "-" THEN "hyphen" ELSE "dead"
      [] q = "hyphen"   -> IF IsLower(c) THEN "letters2" ELSE "dead"
      [] q = "letters2" -> IF IsLower(c) THEN "letters2"
                           ELSE IF IsDigit(c) THEN "digits" ELSE "dead"
      [] q = "digits"   -> IF IsDigit(c) THEN "digits"
                           ELSE IF c = "\n" /\ last THEN "newline" ELSE "dead"
      [] OTHER          -> "dead"

RECURSIVE ReRun(_, _, _)
ReRun(s, k, q) ==
    IF k > Len(s) THEN q ELSE ReRun(s, k + 1, ReDelta(q, s[k], k = Len(s)))

RegionReMatch(s) == ReRun(s, 1, "start") \in {"digits", "newline"}

(***************************************************************************)
(* The inputs of a run.                                                    *)
(***************************************************************************)
Providers == {"OpenAI", "Anthropic", "xAI", "GoogleAI", "VertexAI"}
GoogleProviders == {"GoogleAI", "VertexAI"}

EnvVars == {"OPENAI_API_KEY", "GOOGLE_API_KEY", "GOOGLE_CLOUD_PROJECT",
            "ANTHROPIC_API_KEY", "XAI_API_KEY"}

\* os.getenv(name): None, the empty string, or a value.
EnvValues == {Absent, Some(<<>>), Some(<<"k">>)}
Envs == [EnvVars -> EnvValues]
FullEnv == [v \in EnvVars |-> Some(<<"k">>)]

RegionChars == {"a", "1", "-", "\n"}
RegionArgs == {Absent} \cup {Some(s) : s \in BoundedSeq(RegionChars, MaxRegionLen)}
UsCentral1 == <<"u", "s", "-", "c", "e", "n", "t", "r", "a", "l", "1">>
UsCentral1NoHyphen == <<"u", "s", "c", "e", "n", "t", "r", "a", "l", "1">>
\* absent, empty, malformed and well-formed values of --region
SampleRegions ==
    {Absent, Some(<<>>), Some(UsCentral1NoHyphen), Some(<<"-">>), Some(UsCentral1),
     Some(UsCentral1 \o <<"\n">>)}

\* A model object of a listing response: its identifier and, when the attribute
\* exists, its supported_generation_methods.
NoMethods == [has |-> FALSE, list |-> <<>>]
Methods(l) == [has |-> TRUE, list |-> l]
Model(id, methods) == [id |-> id, methods |-> methods]

Gpt4 == <<"g", "p", "t", "-", "4">>
Gpt35 == <<"g", "p", "t", "-", "3", ".", "5">>
FtGpt4Custom == <<"f", "t", ":", "g", "p", "t", "-", "4", ":", "c", "u", "s", "t", "o", "m">>
FtNoColon == <<"f", "t">>
GrokBeta == <<"g", "r", "o", "k", "-", "b", "e", "t", "a">>
GrokVisionBeta == <<"g", "r", "o", "k", "-", "v", "i", "s", "i", "o", "n", "-", "b", "e", "t", "a">>
GeminiPro == <<"g", "e", "m", "i", "n", "i", "-", "p", "r", "o">>

ModelIds == {Gpt4, Gpt35, FtGpt4Custom, FtNoColon, GrokBeta}
Models == {Model(id, NoMethods) : id \in ModelIds}
            \cup {Model(GeminiPro, Methods(<<>>)), Model(GeminiPro, Methods(<<"generateContent">>))}
Catalogs == BoundedSeq(Models, MaxModels)
SampleCatalog == <<Model(Gpt4, NoMethods), Model(FtGpt4Custom, NoMethods), Model(Gpt35, NoMethods)>>

\* A reply of generate_content: success, or an exception with its text.
Repeat(c, n) == [k \in 1..n |-> c]
Works == [ok |-> TRUE, msg |-> <<>>]
Raises(msg) == [ok |-> FALSE, msg |-> msg]
Err404Late == Repeat("x", 100) \o <<"4", "0", "4">>
ErrNotFound == <<"M", "o", "d", "e", "l", " ", "N", "o", "t", " ", "F", "o", "u", "n", "d">>
ErrQuota == <<"q", "u", "o", "t", "a">>
ErrLong == Repeat("e", 101)
ProbeReplies == {Works, Raises(Err404Late), Raises(ErrNotFound), Raises(ErrQuota), Raises(ErrLong)}

\* The text of the exception a failing listing call raises.
ListError == <<"C", "o", "n", "n", "e", "c", "t", "i", "o", "n", " ", "e", "r", "r", "o", "r">>

(***************************************************************************)
(* Data of the script.                                                     *)
(***************************************************************************)
\* test_models of _try_known_gemini_models
test_models == <<
    <<"g", "e", "m", "i", "n", "i", "-", "3", ".", "0", "-", "p", "r", "o">>,
    <<"g", "e", "m", "i", "n", "i", "-", "2", ".", "5", "-", "p", "r", "o">>,
    <<"g", "e", "m", "i", "n", "i", "-", "2", ".", "0", "-", "f", "l", "a", "s", "h", "-", "e", "x", "p">>,
    <<"g", "e", "m", "i", "n", "i", "-", "1", ".", "5", "-", "p", "r", "o">>,
    <<"g", "e", "m", "i", "n", "i", "-", "1", ".", "5", "-", "f", "l", "a", "s", "h">> >>

\* known_models of list_anthropic_models
known_models == <<
    <<"c", "l", "a", "u", "d", "e", "-", "3", "-", "5", "-", "s", "o", "n", "n", "e", "t", "-", "2", "0", "2", "4", "1", "0", "2", "2">>,
    <<"c", "l", "a", "u", "d", "e", "-", "3", "-", "5", "-", "s", "o", "n", "n", "e", "t", "-", "2", "0", "2", "4", "0", "6", "2", "0">>,
    <<"c", "l", "a", "u", "d", "e", "-", "3", "-", "o", "p", "u", "s", "-", "2", "0", "2", "4", "0", "2", "2", "9">>,
    <<"c", "l", "a", "u", "d", "e", "-", "3", "-", "s", "o", "n", "n", "e", "t", "-", "2", "0", "2", "4", "0", "2", "2", "9">>,
    <<"c", "l", "a", "u", "d", "e", "-", "3", "-", "h", "a", "i", "k", "u", "-", "2", "0", "2", "4", "0", "3", "0", "7">>,
    <<"c", "l", "a", "u", "d", "e", "-", "2", ".", "1">>,
    <<"c", "l", "a", "u", "d", "e", "-", "2", ".", "0">> >>

\* the identifiers list_xai_models prints when the listing fails
known_xai_models == <<GrokBeta, GrokVisionBeta>>

FtPrefix == <<"f", "t", ":">>
NotFoundCode == <<"4", "0", "4">>
NotFoundText == <<"n", "o", "t", " ", "f", "o", "u", "n", "d">>
SnippetLen == 100

(***************************************************************************)
(* Output lines. kind is the fixed text of the line, text and detail the   *)
(* values formatted into it; src tells a model line read from a listing    *)
(* response ("live") from one written in the script ("known").             *)
(***************************************************************************)
Line(kind, text, detail, src) == [kind |-> kind, text |-> text, detail |-> detail, src |-> src]
Msg(kind) == Line(kind, <<>>, <<>>, "-")
MsgOf(kind, text) == Line(kind, text, <<>>, "-")
ModelLine(id, src) == Line("Model: ", id, <<>>, src)
Rule == Msg("================")

NoClient == [sdk |-> "none", location |-> <<>>]
Client(sdk, location) == [sdk |-> sdk, location |-> location]
ListCall == [op |-> "models.list", model |-> <<>>]
ProbeCall(name) == [op |-> "generate_content", model |-> name]

(***************************************************************************)
(* Init: the script starts with its arguments parsed. The inputs are       *)
(* explored one dimension at a time, the others held at sample values.     *)
(***************************************************************************)
DefaultProbe == [k \in DOMAIN test_models |-> Raises(ErrNotFound)]

Init ==
    /\ \/ \* every --region text, for the provider that validates it
          /\ provider = "VertexAI"
          /\ region \in RegionArgs
          /\ env = FullEnv
          /\ catalog = SampleCatalog
          /\ probeReply = DefaultProbe
       \/ \* sample --region values, for every provider
          /\ provider \in Providers
          /\ region \in SampleRegions
          /\ env = FullEnv
          /\ catalog = SampleCatalog
          /\ probeReply = DefaultProbe
       \/ \* every environment, for every provider
          /\ provider \in Providers
          /\ region \in {Absent, Some(UsCentral1)}
          /\ env \in Envs
          /\ catalog = SampleCatalog
          /\ probeReply = DefaultProbe
       \/ \* every listing response, for the providers that list
          /\ provider \in {"OpenAI", "xAI", "GoogleAI"}
          /\ region = Absent
          /\ env = FullEnv
          /\ catalog \in Catalogs
          /\ probeReply = DefaultProbe
       \/ \* every combination of probe replies, for the fallback
          /\ provider = "GoogleAI"
          /\ region = Absent
          /\ env = FullEnv
          /\ catalog = SampleCatalog
          /\ probeReply \in [DOMAIN test_models -> ProbeReplies]
    /\ fn = "module"
    /\ pc = "validate"
    /\ i = 0
    /\ stdout = <<>>
    /\ stderr = <<>>
    /\ client = NoClient
    /\ calls = <<>>
    /\ exitCode = -1

(***************************************************************************)
(* Steps shared by the actions.                                            *)
(***************************************************************************)
Running(f, l) == fn = f /\ pc = l /\ exitCode = -1
Goto(l) == pc' = l /\ UNCHANGED <<fn, exitCode>>
\* sys.exit(code), and the normal end of the script with code 0
SysExit(code) == pc' = "exited" /\ exitCode' = code /\ UNCHANGED fn
Output(lines) == stdout' = stdout \o lines

\* try: import <package> / except ImportError: print(...); sys.exit(1)
ImportStep(f, hint) ==
    /\ Running(f, "import")
    /\ \/ Goto("getenv") /\ UNCHANGED stdout
       \/ Output(<<Msg(hint)>>) /\ SysExit(1)
    /\ UNCHANGED <<inputs, i, stderr, client, calls>>

\* value = os.getenv(name); if not value: print(...); sys.exit(1)
GetenvStep(f, name, missing, header, next) ==
    /\ Running(f, "getenv")
    /\ IF ~Truthy(env[name])
         THEN Output(<<Msg(missing)>>) /\ SysExit(1)
         ELSE Output(header) /\ Goto(next)
    /\ UNCHANGED <<inputs, i, stderr, client, calls>>

(***************************************************************************)
(* Module level: region validation and dispatch.                           *)
(***************************************************************************)
\* Variant of RegionChecked: the validation runs for every provider.
RegionCheckedAlways(p) == p \in Providers

\* if args.provider == "VertexAI":
RegionChecked(p) == p = "VertexAI"

\* The exit status of parser.error(): argparse prints the usage and the message
\* to standard error and exits with status 2.
ParserErrorStatus == 2

FormatErrorLines(text) ==
    << MsgOf("Error: Invalid region format ", text),
       Msg("Expected format: <continent>-<location><number>"),
       Msg("Common Vertex AI regions:"),
       Msg("  us-central1, us-east4, us-west1"),
       Msg("  europe-west1, europe-west4"),
       Msg("  asia-northeast1, asia-southeast1"),
       Msg("See: https://cloud.google.com/vertex-ai/docs/general/locations") >>

RegionRequiredLines ==
    << Msg("usage: llm_models.py"),
       Msg("error: --region is required when provider is VertexAI") >>

\* rg stands for args.region in every action that reads it.
ValidateRegion(rg) ==
    /\ Running("module", "validate")
    /\ IF RegionChecked(provider) /\ ~Truthy(rg)
         THEN /\ stderr' = stderr \o RegionRequiredLines
              /\ SysExit(ParserErrorStatus)
              /\ UNCHANGED stdout
         ELSE IF RegionChecked(provider) /\ ~RegionReMatch(rg.str)
         THEN /\ Output(FormatErrorLines(rg.str))
              /\ SysExit(1)
              /\ UNCHANGED stderr
         ELSE Goto("main") /\ UNCHANGED <<stdout, stderr>>
    /\ UNCHANGED <<inputs, i, client, calls>>

AdapterOf(p) ==
    CASE p = "OpenAI"    -> "list_openai_models"
      [] p = "GoogleAI"  -> "list_googleai_models"
      [] p = "VertexAI"  -> "list_vertexai_models"
      [] p = "Anthropic" -> "list_anthropic_models"
      [] p = "xAI"       -> "list_xai_models"

Main ==
    /\ Running("module", "main")
    /\ fn' = AdapterOf(provider)
    /\ pc' = "import"
    /\ UNCHANGED <<inputs, i, stdout, stderr, client, calls, exitCode>>

(***************************************************************************)
(* list_openai_models                                                      *)
(***************************************************************************)
ErrorListing == MsgOf("Error listing models: ", ListError)

\* Variant of IsMainModel: the marker is taken to be "ft", without the colon.
IsMainModelNoColon(m) == ~StartsWith(m.id, <<"f", "t">>)

\* not m.id.startswith("ft:")
IsMainModel(m) == ~StartsWith(m.id, FtPrefix)

\* sorted(models, key=lambda x: x.id): a stable sort on the identifier.
InsertById(sorted, m) ==
    LET k == Cardinality({j \in 1..Len(sorted) : ~StrLess(m.id, sorted[j].id)})
    IN  SubSeq(sorted, 1, k) \o <<m>> \o SubSeq(sorted, k + 1, Len(sorted))

RECURSIVE SortedById(_)
SortedById(models) ==
    IF models = <<>> THEN <<>>
    ELSE InsertById(SortedById(SubSeq(models, 1, Len(models) - 1)), models[Len(models)])

OpenAIListing(models) ==
    LET shown == SortedById(SelectSeq(models, IsMainModel))
    IN  [k \in 1..Len(shown) |-> ModelLine(shown[k].id, "live")]

OpenAIImport ==
    ImportStep("list_openai_models", "Error: openai package not installed.")

OpenAIGetenv ==
    GetenvStep("list_openai_models", "OPENAI_API_KEY", "Error: OPENAI_API_KEY not set",
               <<Msg("Listing available OpenAI models..."), Rule>>, "try")

\* Variant of OpenAITry: a failed listing call is retried once.
OpenAITryRetry ==
    /\ Running("list_openai_models", "try")
    /\ client' = Client("openai.OpenAI", <<>>)
    /\ \/ /\ calls' = calls \o <<ListCall, ListCall>>
          /\ Output(<<ErrorListing>>)
          /\ SysExit(1)
       \/ /\ calls' = Append(calls, ListCall)
          /\ Output(OpenAIListing(catalog))
          /\ SysExit(0)
    /\ UNCHANGED <<inputs, i, stderr>>

OpenAITry ==
    /\ Running("list_openai_models", "try")
    /\ \/ \* openai.OpenAI(...) raises
          /\ Output(<<ErrorListing>>)
          /\ SysExit(1)
          /\ UNCHANGED <<client, calls>>
       \/ \* client.models.list() raises
          /\ client' = Client("openai.OpenAI", <<>>)
          /\ calls' = Append(calls, ListCall)
          /\ Output(<<ErrorListing>>)
          /\ SysExit(1)
       \/ \* the listing answers
          /\ client' = Client("openai.OpenAI", <<>>)
          /\ calls' = Append(calls, ListCall)
          /\ Output(OpenAIListing(catalog))
          /\ SysExit(0)
    /\ UNCHANGED <<inputs, i, stderr>>

list_openai_models == OpenAIImport \/ OpenAIGetenv \/ OpenAITry

(***************************************************************************)
(* list_googleai_models, list_vertexai_models, _try_known_gemini_models    *)
(***************************************************************************)
\* The lines printed for one model of a Google listing.
GoogleModelLines(m) ==
    LET methods == IF m.methods.has THEN m.methods.list ELSE <<>>
    IN  <<ModelLine(m.id, "live")>>
          \o (IF methods # <<>> THEN <<MsgOf("  Supported methods: ", methods)>> ELSE <<>>)

RECURSIVE GoogleListing(_)
GoogleListing(models) ==
    IF models = <<>> THEN <<>>
    ELSE GoogleModelLines(Head(models)) \o GoogleListing(Tail(models))

\* Variant of GoogleTry: the exception of the listing call is not caught.
GoogleTryUncaught(f) ==
    /\ Running(f, "try")
    /\ calls' = Append(calls, ListCall)
    /\ \/ /\ Output(GoogleListing(catalog))
          /\ SysExit(0)
          /\ UNCHANGED stderr
       \/ /\ stderr' = Append(stderr, Msg("Traceback (most recent call last):"))
          /\ SysExit(1)
          /\ UNCHANGED stdout
    /\ UNCHANGED <<inputs, i, client>>

\* The try block around client.models.list() of both Google adapters.
GoogleTry(f) ==
    /\ Running(f, "try")
    /\ calls' = Append(calls, ListCall)
    /\ \/ /\ Output(GoogleListing(catalog))
          /\ SysExit(0)
       \/ /\ Output(<<ErrorListing>>)
          /\ fn' = "_try_known_gemini_models"
          /\ pc' = "start"
          /\ UNCHANGED exitCode
    /\ UNCHANGED <<inputs, i, stderr, client>>

\* Client construction of both Google adapters, outside any try block: an
\* exception here ends the process with a traceback and status 1.
GoogleClient(f, made, header) ==
    /\ Running(f, "client")
    /\ \/ /\ client' = made
          /\ Output(header)
          /\ Goto("try")
          /\ UNCHANGED stderr
       \/ /\ stderr' = Append(stderr, Msg("Traceback (most recent call last):"))
          /\ SysExit(1)
          /\ UNCHANGED <<client, stdout>>
    /\ UNCHANGED <<inputs, i, calls>>

GoogleAIImport ==
    ImportStep("list_googleai_models", "Error: google-genai package not installed.")

GoogleAIGetenv ==
    GetenvStep("list_googleai_models", "GOOGLE_API_KEY", "Error: GOOGLE_API_KEY not set",
               <<>>, "client")

GoogleAIClient ==
    GoogleClient("list_googleai_models", Client("genai.Client(api_key)", <<>>),
                 <<Msg("Listing available Google AI Studio models (auto-routed region)..."), Rule>>)

GoogleAITry == GoogleTry("list_googleai_models")

list_googleai_models == GoogleAIImport \/ GoogleAIGetenv \/ GoogleAIClient \/ GoogleAITry

VertexAIImport ==
    ImportStep("list_vertexai_models", "Error: google-genai package not installed.")

VertexAIGetenv ==
    GetenvStep("list_vertexai_models", "GOOGLE_CLOUD_PROJECT",
               "Error: GOOGLE_CLOUD_PROJECT not set (required for Vertex AI)", <<>>, "client")

VertexAIClient(rg) ==
    GoogleClient("list_vertexai_models", Client("genai.Client(vertexai)", rg.str),
                 << Line("Listing available Vertex AI models", env["GOOGLE_CLOUD_PROJECT"].str,
                         rg.str, "-"),
                    Rule >>)

VertexAITry == GoogleTry("list_vertexai_models")

list_vertexai_models(rg) == VertexAIImport \/ VertexAIGetenv \/ VertexAIClient(rg) \/ VertexAITry

\* Variant of ProbeLine: "not found" is looked for without lower-casing the text.
ProbeLineCaseSensitive(name, reply) ==
    IF reply.ok THEN Line("WORKS", name, <<>>, "-")
    ELSE IF Contains(reply.msg, NotFoundCode) \/ Contains(reply.msg, NotFoundText)
    THEN Line("NOT FOUND", name, <<>>, "-")
    ELSE Line("Error: ", name, Slice(reply.msg, SnippetLen), "-")

\* The label printed for one candidate, from the reply of generate_content.
ProbeLine(name, reply) ==
    IF reply.ok THEN Line("WORKS", name, <<>>, "-")
    ELSE IF Contains(reply.msg, NotFoundCode) \/ Contains(Lower(reply.msg), NotFoundText)
    THEN Line("NOT FOUND", name, <<>>, "-")
    ELSE Line("Error: ", name, Slice(reply.msg, SnippetLen), "-")

TryKnownStart ==
    /\ Running("_try_known_gemini_models", "start")
    /\ Output(<<Msg("Trying alternative approach...")>>)
    /\ i' = 1
    /\ Goto("loop")
    /\ UNCHANGED <<inputs, stderr, client, calls>>

TryKnownProbe ==
    /\ Running("_try_known_gemini_models", "loop")
    /\ i <= Len(test_models)
    /\ calls' = Append(calls, ProbeCall(test_models[i]))
    /\ Output(<<ProbeLine(test_models[i], probeReply[i])>>)
    /\ i' = i + 1
    /\ UNCHANGED <<inputs, fn, pc, exitCode, stderr, client>>

TryKnownReturn ==
    /\ Running("_try_known_gemini_models", "loop")
    /\ i > Len(test_models)
    /\ SysExit(0)
    /\ UNCHANGED <<inputs, i, stdout, stderr, client, calls>>

try_known_gemini_models == TryKnownStart \/ TryKnownProbe \/ TryKnownReturn

(***************************************************************************)
(* list_anthropic_models                                                   *)
(***************************************************************************)
AnthropicImport ==
    ImportStep("list_anthropic_models", "Error: anthropic package not installed.")

AnthropicGetenv ==
    GetenvStep("list_anthropic_models", "ANTHROPIC_API_KEY", "Error: ANTHROPIC_API_KEY not set",
               <<Msg("Listing available Anthropic models..."), Rule>>, "known")

\* Variant of AnthropicKnownLines: the last known model is left out.
AnthropicKnownLinesShort ==
    <<Msg("Known Anthropic Claude models:")>>
      \o [k \in 1..(Len(known_models) - 1) |-> ModelLine(known_models[k], "known")]
      \o << Msg("Note: Anthropic does not provide a models API endpoint."),
            Msg("This is a list of known models.") >>

AnthropicKnownLines ==
    <<Msg("Known Anthropic Claude models:")>>
      \o [k \in 1..Len(known_models) |-> ModelLine(known_models[k], "known")]
      \o << Msg("Note: Anthropic does not provide a models API endpoint."),
            Msg("This is a list of known models.") >>

AnthropicKnown ==
    /\ Running("list_anthropic_models", "known")
    /\ Output(AnthropicKnownLines)
    /\ SysExit(0)
    /\ UNCHANGED <<inputs, i, stderr, client, calls>>

list_anthropic_models == AnthropicImport \/ AnthropicGetenv \/ AnthropicKnown

(***************************************************************************)
(* list_xai_models                                                         *)
(***************************************************************************)
XaiImport ==
    ImportStep("list_xai_models", "Error: openai package not installed (xAI uses OpenAI-compatible API).")

XaiGetenv ==
    GetenvStep("list_xai_models", "XAI_API_KEY", "Error: XAI_API_KEY not set",
               <<Msg("Listing available xAI models..."), Rule>>, "try")

XaiListing(models) == [k \in 1..Len(models) |-> ModelLine(models[k].id, "live")]

\* Variant of XaiKnownLines: the known models are printed without their label.
XaiKnownLinesUnlabelled ==
    <<ErrorListing>>
      \o [k \in 1..Len(known_xai_models) |-> ModelLine(known_xai_models[k], "known")]
      \o <<Msg("Note: Check https://docs.x.ai/docs for the latest model information.")>>

\* The except block of list_xai_models.
XaiKnownLines ==
    <<ErrorListing, Msg("Known xAI models:")>>
      \o [k \in 1..Len(known_xai_models) |-> ModelLine(known_xai_models[k], "known")]
      \o <<Msg("Note: Check https://docs.x.ai/docs for the latest model information.")>>

XaiTry ==
    /\ Running("list_xai_models", "try")
    /\ \/ \* openai.OpenAI(...) raises
          /\ Output(XaiKnownLines)
          /\ UNCHANGED <<client, calls>>
       \/ \* client.models.list() raises
          /\ client' = Client("openai.OpenAI(base_url=https://api.x.ai/v1)", <<>>)
          /\ calls' = Append(calls, ListCall)
          /\ Output(XaiKnownLines)
       \/ \* the listing answers
          /\ client' = Client("openai.OpenAI(base_url=https://api.x.ai/v1)", <<>>)
          /\ calls' = Append(calls, ListCall)
          /\ Output(XaiListing(catalog))
    /\ SysExit(0)
    /\ UNCHANGED <<inputs, i, stderr>>

list_xai_models == XaiImport \/ XaiGetenv \/ XaiTry

(***************************************************************************)
(* The script.                                                             *)
(***************************************************************************)
\* One step of the script run with rg as the value of args.region.
Step(rg) ==
    \/ ValidateRegion(rg)
    \/ Main
    \/ list_openai_models
    \/ list_googleai_models
    \/ list_vertexai_models(rg)
    \/ try_known_gemini_models
    \/ list_anthropic_models
    \/ list_xai_models

Next ==
    \/ ValidateRegion(region)
    \/ Main
    \/ list_openai_models
    \/ list_googleai_models
    \/ list_vertexai_models(region)
    \/ try_known_gemini_models
    \/ list_anthropic_models
    \/ list_xai_models

Spec == Init /\ [][Next]_vars

(***************************************************************************)
(* Vocabulary of the properties.                                           *)
(***************************************************************************)
Exited == pc = "exited"
HasKind(out, kind) == \E k \in DOMAIN out : out[k].kind = kind
IsModelLine(l) == l.kind = "Model: "
ModelIdsOf(out) == LET shown == SelectSeq(out, IsModelLine) IN [k \in DOMAIN shown |-> shown[k].text]
Count(seq, x) == Cardinality({k \in DOMAIN seq : seq[k] = x})
IdsOf(models) == [k \in DOMAIN models |-> models[k].id]
ListCallsMade == Cardinality({k \in DOMAIN calls : calls[k].op = "models.list"})
ListingFailed == HasKind(stdout, "Error listing models: ")

\* <letters>-<letters><digits>
WellFormedRegion(s) ==
    \E h \in DOMAIN s, d \in DOMAIN s :
        /\ h > 1 /\ s[h] = "-" /\ d > h + 1
        /\ \A k \in 1..(h - 1) : IsLower(s[k])
        /\ \A k \in (h + 1)..(d - 1) : IsLower(s[k])
        /\ \A k \in d..Len(s) : IsDigit(s[k])

\* The credential each provider requires from the environment.
CredentialOf(p) ==
    CASE p = "OpenAI"    -> "OPENAI_API_KEY"
      [] p = "GoogleAI"  -> "GOOGLE_API_KEY"
      [] p = "VertexAI"  -> "GOOGLE_CLOUD_PROJECT"
      [] p = "Anthropic" -> "ANTHROPIC_API_KEY"
      [] p = "xAI"       -> "XAI_API_KEY"

(***************************************************************************)
(* C1. With --provider VertexAI and no --region the process exits with     *)
(* code 1 and a region-required message, before any adapter runs.          *)
(* The code ends this run through parser.error(), whose exit status is 2.  *)
(***************************************************************************)
C1_RegionRequiredExitsOne ==
    (provider = "VertexAI" /\ ~region.some /\ Exited)
        => /\ exitCode = 1
           /\ HasKind(stderr, "error: --region is required when provider is VertexAI")
           /\ fn = "module"

(***************************************************************************)
(* C2. With --provider VertexAI, every --region string that does not match *)
(* <letters>-<letters><digits> ends the run with exit code 1 and the       *)
(* format-error message, and no network call is made at any point of the   *)
(* run. Stated for the non-empty strings; the empty string is rejected by  *)
(* the region-required check of C1 before the format is looked at.         *)
(***************************************************************************)
C2_MalformedRegionExitsOne ==
    (provider = "VertexAI" /\ Truthy(region) /\ ~WellFormedRegion(region.str))
        => /\ calls = <<>>
           /\ client = NoClient
           /\ Exited => exitCode = 1 /\ HasKind(stdout, "Error: Invalid region format ")

(***************************************************************************)
(* C3. For every provider, when the credential it requires is unset or     *)
(* empty, the process exits with code 1 without constructing a client,     *)
(* without a network call and without printing a model line.               *)
(***************************************************************************)
C3_MissingCredentialExitsOne ==
    ~Truthy(env[CredentialOf(provider)])
        => /\ client = NoClient
           /\ calls = <<>>
           /\ ~HasKind(stdout, "Model: ")
           /\ Exited => exitCode = 1

(***************************************************************************)
(* C4. For every OpenAI listing response, the Model lines printed are      *)
(* exactly the identifiers of the response that do not start with "ft:",   *)
(* once per occurrence, in ascending lexicographic order; the response     *)
(* gpt-4, ft:gpt-4:custom, gpt-3.5 prints gpt-3.5 then gpt-4.              *)
(***************************************************************************)
OpenAIListed == provider = "OpenAI" /\ Exited /\ exitCode = 0

HasFtMarker(id) == Len(id) >= 3 /\ id[1] = "f" /\ id[2] = "t" /\ id[3] = ":"

C4_OpenAIFilteredSorted ==
    OpenAIListed =>
        LET shown == ModelIdsOf(stdout)
        IN  /\ \A id \in ModelIds \cup {GeminiPro} :
                 Count(shown, id) = IF HasFtMarker(id) THEN 0 ELSE Count(IdsOf(catalog), id)
            /\ \A k \in DOMAIN shown : \E m \in DOMAIN catalog : catalog[m].id = shown[k]
            /\ \A j, k \in DOMAIN shown : j < k => ~StrLess(shown[k], shown[j])
            /\ catalog = SampleCatalog => shown = <<Gpt35, Gpt4>>

C4_Witness ==
    /\ OpenAIListed
    /\ Len(catalog) >= 3
    /\ catalog[1].id = GrokBeta /\ catalog[2].id = FtNoColon /\ catalog[3].id = FtGpt4Custom
    /\ ModelIdsOf(stdout) = <<FtNoColon, GrokBeta>>

(***************************************************************************)
(* C5. Given --provider Anthropic, the output always includes the fixed    *)
(* known-model list, in every run, and no network call is ever made.       *)
(* As claimed: every finished Anthropic run has printed the list.          *)
(***************************************************************************)
C5_AnthropicAlwaysListsKnown ==
    (provider = "Anthropic" /\ Exited)
        => ModelIdsOf(stdout) = known_models /\ calls = <<>>

(***************************************************************************)
(* C5 as amended. An Anthropic run never constructs a client and never     *)
(* makes a network call. It prints the whole known-model list, in order,   *)
(* and exits 0 when the anthropic package is importable and                *)
(* ANTHROPIC_API_KEY is set and non-empty; otherwise it exits 1 after the  *)
(* package or credential error and prints no model line.                   *)
(***************************************************************************)
C5_AnthropicListsKnownWhenConfigured ==
    provider = "Anthropic" =>
        /\ calls = <<>>
        /\ client = NoClient
        /\ Exited =>
             \/ /\ exitCode = 0
                /\ Truthy(env["ANTHROPIC_API_KEY"])
                /\ ModelIdsOf(stdout) = known_models
                /\ \A k \in DOMAIN stdout : IsModelLine(stdout[k]) => stdout[k].src = "known"
             \/ /\ exitCode = 1
                /\ ModelIdsOf(stdout) = <<>>
                /\ \/ HasKind(stdout, "Error: anthropic package not installed.")
                   \/ /\ HasKind(stdout, "Error: ANTHROPIC_API_KEY not set")
                      /\ ~Truthy(env["ANTHROPIC_API_KEY"])

C5_Witness ==
    /\ provider = "Anthropic"
    /\ Exited
    /\ exitCode = 0
    /\ Len(ModelIdsOf(stdout)) = Len(known_models)

(***************************************************************************)
(* C6. In every invocation the process makes at most one external network  *)
(* call in total, on every path, the paths after a failed listing call     *)
(* included.                                                               *)
(***************************************************************************)
C6_AtMostOneCall == Len(calls) <= 1

(***************************************************************************)
(* C6 as amended. Every invocation makes at most one listing call, and it  *)
(* is the first call made. OpenAI and xAI make no other call and Anthropic *)
(* makes none. GoogleAI and VertexAI, after a failed listing call, make    *)
(* one generate_content call per fallback candidate in addition: at most   *)
(* one more call than there are candidates.                                *)
(***************************************************************************)
C6_OneListingCallPlusProbes ==
    /\ ListCallsMade <= 1
    /\ calls # <<>> => calls[1].op = "models.list"
    /\ provider \notin GoogleProviders => Len(calls) <= 1
    /\ provider = "Anthropic" => calls = <<>>
    /\ Len(calls) <= 1 + Len(test_models)
    /\ Len(calls) > 1 =>
         /\ ListingFailed
         /\ \A k \in 2..Len(calls) : calls[k].op = "generate_content"

C6_Witness ==
    /\ provider = "GoogleAI"
    /\ Exited
    /\ Len(calls) = 1 + Len(test_models)

(***************************************************************************)
(* C7. A failure of the live listing call is caught for every provider and *)
(* never ends the process with an uncaught exception: OpenAI prints the    *)
(* error and exits 1; GoogleAI, VertexAI and xAI print the error, run the  *)
(* fallback and end with exit code 0.                                      *)
(***************************************************************************)
Uncaught == HasKind(stderr, "Traceback (most recent call last):")

C7_ListingFailureCaught ==
    /\ Uncaught => calls = <<>> /\ ~ListingFailed
    /\ (Exited /\ ListCallsMade = 1 /\ exitCode # 0) => provider = "OpenAI" /\ ListingFailed
    /\ (Exited /\ ListingFailed) =>
         /\ ~Uncaught
         /\ stdout[Len(stdout)].kind # "Error listing models: " => provider # "OpenAI"
         /\ provider = "OpenAI" => exitCode = 1
         /\ provider \in GoogleProviders =>
              /\ exitCode = 0
              /\ fn = "_try_known_gemini_models"
              /\ HasKind(stdout, "Trying alternative approach...")
         /\ provider = "xAI" =>
              /\ exitCode = 0
              /\ HasKind(stdout, "Known xAI models:")

C7_Witness ==
    /\ provider = "VertexAI"
    /\ Exited
    /\ ListingFailed
    /\ calls # <<>>
    /\ exitCode = 0

(***************************************************************************)
(* C8. After a failed GoogleAI or VertexAI listing call the fallback       *)
(* probes every name of the candidate list exactly once, in list order,    *)
(* and prints one label per candidate: WORKS when the probe succeeds, NOT  *)
(* FOUND when the error text contains "404" or, in any letter case, "not   *)
(* found", otherwise the first 100 characters of the error text. A failing *)
(* probe does not stop the probing of the remaining candidates.            *)
(***************************************************************************)
InFallbackLoop == fn = "_try_known_gemini_models" /\ pc \in {"loop", "exited"}

\* msg contains pattern when letter case is ignored (pattern is lower-case).
ContainsAnyCase(msg, pattern) ==
    \E o \in 0..(Len(msg) - Len(pattern)) :
        \A j \in DOMAIN pattern :
            \/ msg[o + j] = pattern[j]
            \/ IsUpper(msg[o + j]) /\ Ord[msg[o + j]] + 32 = Ord[pattern[j]]

ExpectedLabel(line, reply) ==
    IF reply.ok THEN line.kind = "WORKS"
    ELSE IF Contains(reply.msg, <<"4", "0", "4">>)
              \/ ContainsAnyCase(reply.msg, <<"n", "o", "t", " ", "f", "o", "u", "n", "d">>)
    THEN line.kind = "NOT FOUND"
    ELSE /\ line.kind = "Error: "
         /\ Len(line.detail) = Min(100, Len(reply.msg))
         /\ \A j \in DOMAIN line.detail : line.detail[j] = reply.msg[j]

C8_FallbackProbesEveryCandidate ==
    InFallbackLoop =>
        LET start == CHOOSE k \in DOMAIN stdout : stdout[k].kind = "Trying alternative approach..."
            probed == Len(stdout) - start
        IN  /\ ListingFailed
            /\ probed = i - 1
            /\ Exited => probed = Len(test_models) /\ exitCode = 0
            /\ Len(calls) = 1 + probed
            /\ \A k \in 1..probed :
                 /\ calls[1 + k] = ProbeCall(test_models[k])
                 /\ stdout[start + k].text = test_models[k]
                 /\ ExpectedLabel(stdout[start + k], probeReply[k])
                 /\ probeReply[k] = Raises(ErrNotFound) => stdout[start + k].kind = "NOT FOUND"
                 /\ probeReply[k] = Raises(Err404Late) => stdout[start + k].kind = "NOT FOUND"
                 /\ probeReply[k] = Raises(ErrLong) => Len(stdout[start + k].detail) = 100

C8_Witness ==
    /\ InFallbackLoop
    /\ Exited
    /\ probeReply = <<Raises(ErrQuota), Works, Raises(ErrNotFound), Raises(ErrLong), Raises(Err404Late)>>
    /\ stdout[Len(stdout)].kind = "NOT FOUND"
    /\ stdout[Len(stdout) - 1].kind = "Error: "

(***************************************************************************)
(* C9. Region validation applies only in VertexAI mode: for every other    *)
(* provider the value of --region (absent, empty, malformed, well-formed)  *)
(* never causes an exit, and every step the run takes is the step the run  *)
(* takes with any other value of --region: same adapter, same calls, same  *)
(* output, same exit code.                                                 *)
(***************************************************************************)
C9_RegionIgnoredOutsideVertexAI ==
    [][ /\ Step(region)
        /\ provider # "VertexAI" =>
             /\ \A rg \in SampleRegions : Step(rg)
             /\ pc = "validate" => pc' = "main" /\ exitCode' = exitCode
                                     /\ stdout' = stdout /\ stderr' = stderr ]_vars

C9_Witness ==
    /\ provider = "GoogleAI"
    /\ region = Some(UsCentral1NoHyphen)
    /\ Exited
    /\ exitCode = 0
    /\ calls # <<>>

(***************************************************************************)
(* C10. Static fallback identifiers are visibly labelled: every Model line *)
(* that comes from a hard-coded list (Anthropic's known models, xAI's      *)
(* known models after a listing failure) is preceded in the output by a    *)
(* "Known ... models" label, and when the live listing of xAI succeeded no *)
(* Model line comes from the hard-coded list.                              *)
(***************************************************************************)
KnownLabels == {"Known Anthropic Claude models:", "Known xAI models:"}

XaiLiveSucceeded == provider = "xAI" /\ Exited /\ ListCallsMade = 1 /\ ~ListingFailed

C10_KnownModelsLabelled ==
    /\ \A k \in DOMAIN stdout :
         (IsModelLine(stdout[k]) /\ stdout[k].src = "known")
            => \E j \in 1..(k - 1) : stdout[j].kind \in KnownLabels
    /\ XaiLiveSucceeded =>
         /\ \A k \in DOMAIN stdout : stdout[k].src # "known"
         /\ ModelIdsOf(stdout) = IdsOf(catalog)
    /\ (provider = "xAI" /\ Exited /\ ListingFailed) =>
         ModelIdsOf(stdout) = known_xai_models

C10_Witness ==
    /\ provider = "xAI"
    /\ Exited
    /\ ListingFailed
    /\ \E k \in DOMAIN stdout : stdout[k].src = "known" /\ stdout[k].text = GrokBeta

====
